---- MODULE Spec2Model ----
(***************************************************************************)
(* The expense ledger of Expense_Splitter_Final_main.py: the ExpenseSplitter*)
(* object (users with their balance mappings, expenses, groups) and its    *)
(* operations create_user, create_group, add_expense and settle_balance.   *)
(*                                                                         *)
(* Identifiers: user "U00n", group "G00n" and expense "E000n" are modelled *)
(* by the number n they are formatted from; 0 stands for None.             *)
(* Numbers: a Python float is modelled by the exact rational it stands     *)
(* for, a pair <<n, d>> in lowest terms with d > 0.  Rounding error of the *)
(* binary representation is outside the model.                             *)
(***************************************************************************)
EXTENDS Integers, Sequences, FiniteSets, TLC

-----------------------------------------------------------------------------
(* Bounds of the exploration *)

MaxUsers == 3
MaxGroups == 1
MaxExpenses == 2
MaxSplitExpenses == 1
MaxParticipants == 2
MaxSettles == 1
MaxSharedGroups == 2

-----------------------------------------------------------------------------
(* Exact rational arithmetic standing for float arithmetic *)

Abs(x) == IF x < 0 THEN -x ELSE x

RECURSIVE GCD(_, _)
GCD(a, b) == IF b = 0 THEN a ELSE GCD(b, a % b)

Rat(n, d) == LET g == GCD(Abs(n), d) IN <<n \div g, d \div g>>

Zero == <<0, 1>>

RAdd(x, y) ==
    LET l == (x[2] * y[2]) \div GCD(x[2], y[2])
    IN  Rat(x[1] * (l \div x[2]) + y[1] * (l \div y[2]), l)

RNeg(x) == <<-x[1], x[2]>>

RSub(x, y) == RAdd(x, RNeg(y))

RMul(x, y) ==
    LET g1 == GCD(Abs(x[1]), y[2])
        g2 == GCD(Abs(y[1]), x[2])
    IN  Rat((x[1] \div g1) * (y[1] \div g2), (x[2] \div g2) * (y[2] \div g1))

\* x / k for a positive integer k
RDivInt(x, k) == Rat(x[1], x[2] * k)

RAbs(x) == <<Abs(x[1]), x[2]>>

RLess(x, y) == x[1] * y[2] < y[1] * x[2]

\* sum(d.values()) of a dict d
RECURSIVE RSum(_)
RSum(d) ==
    IF DOMAIN d = {} THEN Zero
    ELSE LET k == CHOOSE k \in DOMAIN d : TRUE
         IN  RAdd(d[k], RSum([x \in DOMAIN d \ {k} |-> d[x]]))

\* The literals 0.01 and 100.0 of the source
Tolerance == <<1, 100>>
Hundred == <<100, 1>>

-----------------------------------------------------------------------------
(* Dictionaries *)

EmptyDict == [x \in {} |-> Zero]

\* d[k] = v
Put(d, k, v) == [x \in DOMAIN d \cup {k} |-> IF x = k THEN v ELSE d[x]]

\* del d[k]
Del(d, k) == [x \in DOMAIN d \ {k} |-> d[x]]

\* d.get(k, 0)
Get0(d, k) == IF k \in DOMAIN d THEN d[k] ELSE Zero

\* The elements of a list
Range(s) == {s[i] : i \in 1..Len(s)}

-----------------------------------------------------------------------------
(* State *)

VARIABLES
    users,      \* self.users: user id -> [balances: dict user id -> amount]
    expenses,   \* self.expenses: expense id -> Expense, ids are 1..Len
    groups,     \* self.groups: group id -> [created_by, members, expenses]
    settles,    \* number of settle_balance calls made (bounds the run)
    call,       \* the last call made and how it ended
    prev,       \* users, expenses and groups as they were before that call
    file        \* the document in self.data_file

vars == <<users, expenses, groups, settles, call, prev, file>>

\* The record of a call: its name, its arguments (those it has not are 0 or
\* empty) and how it ended
NoCall ==
    [op |-> "none", result |-> "none", amount |-> Zero, paid_by |-> 0,
     split_among |-> <<>>, group_id |-> 0, split_type |-> "",
     split_details |-> <<>>, payer_id |-> 0, receiver_id |-> 0,
     user_id |-> 0]

Snapshot == [users |-> users, expenses |-> expenses, groups |-> groups]

User == [balances |-> EmptyDict]

Group(created_by) ==
    [created_by |-> created_by, members |-> <<created_by>>, expenses |-> <<>>]

Expense(amount, paid_by, split_among, split_type, split_details) ==
    [amount |-> amount, paid_by |-> paid_by, split_among |-> split_among,
     split_type |-> split_type, split_details |-> split_details]

-----------------------------------------------------------------------------
(* to_dict, from_dict, save_data, load_data *)

\* The fields name, email, description and date are strings that the
\* operations below never read; they are left out of the entries.

\* lines 20-26
UserToDict(user_id, user) ==
    [user_id |-> user_id, balances |-> user.balances]

\* lines 50-60
ExpenseToDict(expense_id, expense) ==
    [expense_id |-> expense_id, amount |-> expense.amount,
     paid_by |-> expense.paid_by, split_among |-> expense.split_among,
     split_type |-> expense.split_type,
     split_details |-> expense.split_details]

\* lines 99-106
GroupToDict(group_id, group) ==
    [group_id |-> group_id, created_by |-> group.created_by,
     members |-> group.members, expenses |-> group.expenses]

\* No file at the path of self.data_file
NoFile == [exists |-> FALSE]

\* lines 129-135: the document save_data writes for the collections given
Document(us, es, gs) ==
    [exists |-> TRUE,
     users |-> [uid \in DOMAIN us |-> UserToDict(uid, us[uid])],
     expenses |-> [eid \in DOMAIN es |-> ExpenseToDict(eid, es[eid])],
     groups |-> [gid \in DOMAIN gs |-> GroupToDict(gid, gs[gid])]]

\* data.get(key, default) of an entry
GetOr(data, key, default) ==
    IF key \in DOMAIN data THEN data[key] ELSE default

\* from_dict raises KeyError for an entry without a key it subscripts
UserKeys == {"user_id"}
ExpenseKeys == {"expense_id", "amount", "paid_by", "split_among"}
GroupKeys == {"group_id", "created_by"}

Malformed(section, keys) ==
    \E id \in DOMAIN section : ~(keys \subseteq DOMAIN section[id])

\* lines 29-32
UserFromDict(data) == [balances |-> GetOr(data, "balances", EmptyDict)]

\* lines 63-74
ExpenseFromDict(data) ==
    Expense(data.amount, data.paid_by, data.split_among,
            GetOr(data, "split_type", "equal"),
            GetOr(data, "split_details", EmptyDict))

\* lines 109-113
GroupFromDictNoExpenses(data) ==
    [created_by |-> data.created_by,
     members |-> GetOr(data, "members", <<data.created_by>>),
     expenses |-> <<>>]

GroupFromDict(data) ==
    [created_by |-> data.created_by,
     members |-> GetOr(data, "members", <<data.created_by>>),
     expenses |-> GetOr(data, "expenses", <<>>)]

\* lines 139-151 on a fresh object: the three collections are assigned one
\* after the other, each when its whole section was converted; the first
\* exception ends the loading and is caught, and what was not yet assigned
\* stays empty
LoadData(doc) ==
    IF ~doc.exists
    THEN [users |-> <<>>, expenses |-> <<>>, groups |-> <<>>, raised |-> FALSE]
    ELSE LET us == GetOr(doc, "users", <<>>)
             es == GetOr(doc, "expenses", <<>>)
             gs == GetOr(doc, "groups", <<>>)
             usOK == ~Malformed(us, UserKeys)
             esOK == usOK /\ ~Malformed(es, ExpenseKeys)
             gsOK == esOK /\ ~Malformed(gs, GroupKeys)
         IN  [users |-> IF usOK
                        THEN [uid \in DOMAIN us |-> UserFromDict(us[uid])]
                        ELSE <<>>,
              expenses |-> IF esOK
                           THEN [eid \in DOMAIN es |-> ExpenseFromDict(es[eid])]
                           ELSE <<>>,
              groups |-> IF gsOK
                         THEN [gid \in DOMAIN gs |-> GroupFromDict(gs[gid])]
                         ELSE <<>>,
              raised |-> ~gsOK]

\* lines 119-125: a new ExpenseSplitter on the document doc
Construct(doc) ==
    LET r == LoadData(doc)
    IN  /\ prev' = Snapshot
        /\ users' = r.users
        /\ expenses' = r.expenses
        /\ groups' = r.groups
        /\ file' = doc
        /\ call' = [NoCall EXCEPT !.op = "load_data", !.result =
                       IF r.raised THEN "LoadError" ELSE "Loaded"]
        /\ UNCHANGED settles

\* The object is constructed where no file is
Init ==
    /\ users = <<>>
    /\ expenses = <<>>
    /\ groups = <<>>
    /\ settles = 0
    /\ call = NoCall
    /\ prev = [users |-> <<>>, expenses |-> <<>>, groups |-> <<>>]
    /\ file = NoFile

-----------------------------------------------------------------------------
(* create_user, create_group *)

CreateUser ==
    /\ Len(users) < MaxUsers
    /\ prev' = Snapshot
    /\ users' = Append(users, User)
    /\ file' = Document(users', expenses, groups)
    /\ call' = [NoCall EXCEPT !.op = "create_user", !.result = "User"]
    /\ UNCHANGED <<expenses, groups, settles>>

CreateGroup(creator_id) ==
    /\ prev' = Snapshot
    /\ IF creator_id \notin DOMAIN users
       THEN /\ call' = [NoCall EXCEPT !.op = "create_group", !.result = "None"]
            /\ UNCHANGED <<groups, file>>
       ELSE /\ groups' = Append(groups, Group(creator_id))
            /\ file' = Document(users, expenses, groups')
            /\ call' = [NoCall EXCEPT !.op = "create_group", !.result = "Group"]
    /\ UNCHANGED <<users, expenses, settles>>

-----------------------------------------------------------------------------
(* Group.add_member, Group.remove_member *)

\* list.remove(x): the list without the first x
RECURSIVE Remove(_, _)
Remove(s, x) ==
    IF s = <<>> THEN <<>>
    ELSE IF Head(s) = x THEN Tail(s)
    ELSE <<Head(s)>> \o Remove(Tail(s), x)

\* MayRemove without the test for the creator
MayRemoveAnyone(group, user_id) ==
    user_id \in Range(group.members)

\* line 94
MayRemove(group, user_id) ==
    user_id \in Range(group.members) /\ user_id # group.created_by

\* lines 87-91 on the group group_id
AddMember(group_id, user_id) ==
    /\ prev' = Snapshot
    /\ LET c == [NoCall EXCEPT !.op = "add_member", !.group_id = group_id,
                    !.user_id = user_id]
       IN
       IF user_id \notin Range(groups[group_id].members)
       THEN /\ groups' = [groups EXCEPT ![group_id].members = Append(@, user_id)]
            /\ call' = [c EXCEPT !.result = "True"]
       ELSE /\ call' = [c EXCEPT !.result = "False"]
            /\ UNCHANGED groups
    /\ UNCHANGED <<users, expenses, settles, file>>

\* lines 93-97 on the group group_id
RemoveMember(group_id, user_id) ==
    /\ prev' = Snapshot
    /\ LET c == [NoCall EXCEPT !.op = "remove_member", !.group_id = group_id,
                    !.user_id = user_id]
       IN
       IF MayRemove(groups[group_id], user_id)
       THEN /\ groups' = [groups EXCEPT ![group_id].members = Remove(@, user_id)]
            /\ call' = [c EXCEPT !.result = "True"]
       ELSE /\ call' = [c EXCEPT !.result = "False"]
            /\ UNCHANGED groups
    /\ UNCHANGED <<users, expenses, settles, file>>

-----------------------------------------------------------------------------
(* add_expense *)

\* UsersKnown with only the first participant looked up
UsersKnownFirst(us, paid_by, split_among) ==
    /\ paid_by \in DOMAIN us
    /\ Len(split_among) > 0 => split_among[1] \in DOMAIN us

\* lines 176-181: the payer and every participant are stored users
UsersKnown(us, paid_by, split_among) ==
    /\ paid_by \in DOMAIN us
    /\ \A i \in 1..Len(split_among) : split_among[i] \in DOMAIN us

\* SplitValid with the absolute value forgotten: only a sum above its target
\* is rejected
SplitValidOneSided(amount, split_type, split_details) ==
    IF split_type = "percentage"
    THEN /\ DOMAIN split_details # {}
         /\ ~RLess(Tolerance, RSub(RSum(split_details), Hundred))
    ELSE IF split_type = "exact"
    THEN /\ DOMAIN split_details # {}
         /\ ~RLess(Tolerance, RSub(RSum(split_details), amount))
    ELSE TRUE

\* lines 183-198: the validation of split_details; None and {} are both
\* "not split_details" and are modelled by the empty dict
SplitValid(amount, split_type, split_details) ==
    IF split_type = "percentage"
    THEN /\ DOMAIN split_details # {}
         /\ ~RLess(Tolerance, RAbs(RSub(RSum(split_details), Hundred)))
    ELSE IF split_type = "exact"
    THEN /\ DOMAIN split_details # {}
         /\ ~RLess(Tolerance, RAbs(RSub(RSum(split_details), amount)))
    ELSE TRUE

\* lines 211-212: amount / len(split_among) raises ZeroDivisionError on an
\* empty participant list
SplitRaises(split_among, split_type) ==
    split_type = "equal" /\ Len(split_among) = 0

\* SplitAmounts with the equal share taken over all stored users, and with a
\* percentage taken for the amount owed
SplitAmountsByUsers(amount, split_among, split_type, split_details) ==
    IF split_type = "equal"
    THEN [u \in Range(split_among) |-> RDivInt(amount, Len(users))]
    ELSE IF split_type = "percentage"
    THEN [u \in Range(split_among) |->
            RMul(RMul(Get0(split_details, u), <<1, 100>>), amount)]
    ELSE split_details

SplitAmountsRaw(amount, split_among, split_type, split_details) ==
    IF split_type = "equal"
    THEN [u \in Range(split_among) |-> RDivInt(amount, Len(split_among))]
    ELSE IF split_type = "percentage"
    THEN [u \in Range(split_among) |-> Get0(split_details, u)]
    ELSE split_details

\* lines 208-222: split_amounts, for a non-empty participant list when equal
SplitAmounts(amount, split_among, split_type, split_details) ==
    IF split_type = "equal"
    THEN [u \in Range(split_among) |-> RDivInt(amount, Len(split_among))]
    ELSE IF split_type = "percentage"
    THEN [u \in Range(split_among) |->
            RMul(RMul(Get0(split_details, u), <<1, 100>>), amount)]
    ELSE IF split_type = "exact"
    THEN split_details
    ELSE EmptyDict

\* PayerCredit with the entry overwritten, not accumulated
PayerCreditOverwrite(balances, user_id, owed_amount) ==
    Put(balances, user_id, owed_amount)

\* lines 231-233: the payer is owed money
PayerCredit(balances, user_id, owed_amount) ==
    Put(balances, user_id, RAdd(Get0(balances, user_id), owed_amount))

\* UserDebit with the sign of the update slipped
UserDebitAdds(balances, paid_by, owed_amount) ==
    Put(balances, paid_by, RAdd(Get0(balances, paid_by), owed_amount))

\* lines 237-239: the other user owes money
UserDebit(balances, paid_by, owed_amount) ==
    Put(balances, paid_by, RSub(Get0(balances, paid_by), owed_amount))

\* lines 225-239: the loop over split_among from position i on; line 228
\* raises KeyError when split_amounts has no entry for the participant, and
\* the updates made by then stay
RECURSIVE UpdateBalances(_, _, _, _, _)
UpdateBalances(us, paid_by, split_among, split_amounts, i) ==
    IF i > Len(split_among) THEN [users |-> us, raised |-> FALSE]
    ELSE LET user_id == split_among[i] IN
         IF user_id = paid_by
         THEN UpdateBalances(us, paid_by, split_among, split_amounts, i + 1)
         ELSE IF user_id \notin DOMAIN split_amounts
         THEN [users |-> us, raised |-> TRUE]
         ELSE LET owed_amount == split_amounts[user_id]
                  us1 == [us EXCEPT ![paid_by].balances =
                             PayerCredit(@, user_id, owed_amount)]
                  us2 == [us1 EXCEPT ![user_id].balances =
                             UserDebit(@, paid_by, owed_amount)]
              IN  UpdateBalances(us2, paid_by, split_among, split_amounts, i + 1)

\* AttachToGroup with the first group taken where the group does not exist
AttachToGroupOrFirst(gs, group_id, expense_id) ==
    IF group_id # 0 /\ gs # <<>>
    THEN LET g == IF group_id \in DOMAIN gs THEN group_id ELSE 1
         IN  [gs EXCEPT ![g].expenses = Append(@, expense_id)]
    ELSE gs

\* lines 205-206: attach the expense to the group when the group exists
AttachToGroup(gs, group_id, expense_id) ==
    IF group_id # 0 /\ group_id \in DOMAIN gs
    THEN [gs EXCEPT ![group_id].expenses = Append(@, expense_id)]
    ELSE gs

AddExpense(amount, paid_by, split_among, group_id, split_type, split_details) ==
    /\ prev' = Snapshot
    /\ UNCHANGED settles
    /\ LET c == [NoCall EXCEPT !.op = "add_expense", !.amount = amount,
                    !.paid_by = paid_by, !.split_among = split_among,
                    !.group_id = group_id, !.split_type = split_type,
                    !.split_details = split_details]
       IN
       IF ~UsersKnown(users, paid_by, split_among)
          \/ ~SplitValid(amount, split_type, split_details)
       THEN /\ call' = [c EXCEPT !.result = "None"]
            /\ UNCHANGED <<users, expenses, groups, file>>
       ELSE LET expense_id == Len(expenses) + 1
                expense == Expense(amount, paid_by, split_among, split_type,
                                   split_details)
            IN  /\ expenses' = Append(expenses, expense)
                /\ groups' = AttachToGroup(groups, group_id, expense_id)
                /\ IF SplitRaises(split_among, split_type)
                   THEN /\ users' = users
                        /\ file' = file
                        /\ call' = [c EXCEPT !.result = "ZeroDivisionError"]
                   ELSE LET r == UpdateBalances(users, paid_by, split_among,
                                    SplitAmounts(amount, split_among,
                                                 split_type, split_details), 1)
                        IN  /\ users' = r.users
                            /\ file' = IF r.raised THEN file
                                       ELSE Document(users', expenses', groups')
                            /\ call' = [c EXCEPT !.result =
                                   IF r.raised THEN "KeyError" ELSE "Expense"]

-----------------------------------------------------------------------------
(* settle_balance *)

\* SettleEntry without the deletion of an entry below 0.01
SettleEntryKeeps(balances, key, delta) ==
    IF key \in DOMAIN balances
    THEN Put(balances, key, RAdd(balances[key], delta))
    ELSE balances

\* SettleEntry with an absent entry taken for 0 and written back
SettleEntryCreates(balances, key, delta) ==
    Put(balances, key, RAdd(Get0(balances, key), delta))

\* lines 253-256 and 258-261: an entry that exists is moved by delta and
\* deleted when its magnitude is below 0.01; an absent entry stays absent
SettleEntry(balances, key, delta) ==
    IF key \in DOMAIN balances
    THEN LET v == RAdd(balances[key], delta)
         IN  IF RLess(RAbs(v), Tolerance) THEN Del(balances, key)
             ELSE Put(balances, key, v)
    ELSE balances

SettleBalance(payer_id, receiver_id, amount) ==
    /\ settles' = settles + 1
    /\ prev' = Snapshot
    /\ UNCHANGED <<expenses, groups>>
    /\ LET c == [NoCall EXCEPT !.op = "settle_balance", !.payer_id = payer_id,
                    !.receiver_id = receiver_id, !.amount = amount]
       IN
       IF payer_id \notin DOMAIN users \/ receiver_id \notin DOMAIN users
       THEN /\ call' = [c EXCEPT !.result = "False"]
            /\ UNCHANGED <<users, file>>
       ELSE LET us1 == [users EXCEPT ![payer_id].balances =
                           SettleEntry(@, receiver_id, amount)]
                us2 == [us1 EXCEPT ![receiver_id].balances =
                           SettleEntry(@, payer_id, RNeg(amount))]
            IN  /\ users' = us2
                /\ file' = Document(users', expenses, groups)
                /\ call' = [c EXCEPT !.result = "True"]

\* lines 272-276: get_total_balance
GetTotalBalance(user_id) ==
    IF user_id \notin DOMAIN users THEN Zero
    ELSE RSum(users[user_id].balances)

-----------------------------------------------------------------------------
(* The calls explored *)

UserIds == 1..MaxUsers

\* group_id arguments: None and the groups that may be created
GroupIds == 0..MaxGroups

Amounts == {<<200, 1>>}

SettleAmounts == {<<100, 1>>, <<200, 1>>}

SplitTypes == {"equal", "percentage", "exact"}

\* values of split_details: percentages, or exact amounts of the expense;
\* 99.9975 makes sums that miss their target by less than 0.01
DetailValues == {<<100, 1>>, <<39999, 400>>}

SplitAmongs ==
    UNION {[1..n -> UserIds] : n \in 0..MaxParticipants}

Details ==
    UNION {[K -> DetailValues] : K \in SUBSET UserIds}

\* The split_details tried with a split policy
DetailsFor(split_type) ==
    IF split_type = "equal" THEN {EmptyDict} ELSE Details

\* A rejected call leaves the object as it was: a run is continued from the
\* state before it, not after it
Rejected == call.result \in {"None", "False"}

\* What construction loads is what a call before it saved, from where the
\* run is continued anyway: a run is not continued after construction either
Stopped == Rejected \/ call.op = "load_data"

NewUser == ~Stopped /\ CreateUser

NewGroup ==
    /\ ~Stopped
    /\ Len(groups) < MaxGroups
    /\ \E creator_id \in UserIds : CreateGroup(creator_id)

Settle ==
    /\ ~Stopped
    /\ settles < MaxSettles
    /\ \E payer_id \in UserIds, receiver_id \in UserIds,
          amount \in SettleAmounts :
          SettleBalance(payer_id, receiver_id, amount)

\* Equal splits, up to MaxExpenses of them
AddEqual ==
    /\ ~Stopped
    /\ Len(expenses) < MaxExpenses
    /\ \E amount \in Amounts, paid_by \in UserIds, split_among \in SplitAmongs,
          group_id \in 1..MaxGroups :
          AddExpense(amount, paid_by, split_among, group_id, "equal", EmptyDict)

\* Every split policy with every split_details, as the only expenses
AddFirst ==
    /\ ~Stopped
    /\ Len(expenses) < MaxSplitExpenses
    /\ \E amount \in Amounts, paid_by \in UserIds, split_among \in SplitAmongs,
          group_id \in GroupIds, split_type \in SplitTypes :
          \E split_details \in DetailsFor(split_type) :
             AddExpense(amount, paid_by, split_among, group_id, split_type,
                        split_details)

\* An equal split with one participant
Simple(e) == e.split_type = "equal" /\ Len(e.split_among) = 1

NotSimple == {i \in DOMAIN expenses : ~Simple(expenses[i])}

\* Every split policy with every split_details, on top of earlier equal
\* splits with one participant
AddSplit ==
    /\ ~Stopped
    /\ Len(expenses) < MaxExpenses
    /\ Cardinality(NotSimple) < MaxSplitExpenses
    /\ \E amount \in Amounts, paid_by \in UserIds, split_among \in SplitAmongs,
          group_id \in 1..MaxGroups, split_type \in SplitTypes :
          \E split_details \in DetailsFor(split_type) :
             AddExpense(amount, paid_by, split_among, group_id, split_type,
                        split_details)

\* Equal splits and settlement
Next == NewUser \/ NewGroup \/ AddEqual \/ Settle

Spec == Init /\ [][Next]_vars

\* One expense of any split policy and settlement
NextSplit == NewUser \/ NewGroup \/ AddFirst \/ Settle

SpecSplit == Init /\ [][NextSplit]_vars

\* An expense of any split policy after earlier expenses
NextSecond == NewUser \/ NewGroup \/ AddSplit

SpecSecond == Init /\ [][NextSecond]_vars

\* Groups side by side, up to MaxSharedGroups of them
NewSharedGroup ==
    /\ ~Stopped
    /\ Len(groups) < MaxSharedGroups
    /\ \E creator_id \in UserIds : CreateGroup(creator_id)

\* add_member and remove_member of any stored group, for any user id
JoinGroup ==
    /\ ~Stopped
    /\ \E group_id \in DOMAIN groups, user_id \in UserIds :
          AddMember(group_id, user_id)

LeaveGroup ==
    /\ ~Stopped
    /\ \E group_id \in DOMAIN groups, user_id \in UserIds :
          RemoveMember(group_id, user_id)

\* Membership of up to MaxSharedGroups groups
NextMembers == NewUser \/ NewSharedGroup \/ JoinGroup \/ LeaveGroup

SpecMembers == Init /\ [][NextMembers]_vars

\* group_id arguments: None and the groups that may be created
SharedGroupIds == 0..MaxSharedGroups

\* Amounts of either sign
AnyAmounts == {<<200, 1>>, <<-200, 1>>}

\* Equal splits of any amount among the stored users, for any group_id
AddAny ==
    /\ ~Stopped
    /\ Len(expenses) < MaxExpenses
    /\ Cardinality(NotSimple) < MaxSplitExpenses
    /\ \E amount \in AnyAmounts, paid_by \in DOMAIN users,
          split_among \in SplitAmongs \cap Seq(DOMAIN users),
          group_id \in SharedGroupIds :
          AddExpense(amount, paid_by, split_among, group_id, "equal", EmptyDict)

\* Expenses of up to MaxSharedGroups groups
NextGroup == NewUser \/ NewSharedGroup \/ AddAny

SpecGroup == Init /\ [][NextGroup]_vars

\* The document doc with the key taken out of the entry id of a section
Without(doc, section, id, key) ==
    [doc EXCEPT ![section][id] =
        [k \in DOMAIN doc[section][id] \ {key} |-> doc[section][id][k]]]

\* The key from_dict subscripts first in the entries of a section
IdKey(section) ==
    IF section = "users" THEN "user_id"
    ELSE IF section = "expenses" THEN "expense_id"
    ELSE "group_id"

\* The documents that are doc with one entry of one section malformed: the
\* entry has lost its identifier
Damaged(doc) ==
    IF ~doc.exists THEN {}
    ELSE UNION {{Without(doc, section, id, IdKey(section)) :
                    id \in DOMAIN doc[section]} :
                section \in {"users", "expenses", "groups"}}

\* A new ExpenseSplitter is constructed on the file, as it was saved or
\* with a malformed entry
Restart ==
    /\ ~Stopped
    /\ \E doc \in {file} \cup Damaged(file) : Construct(doc)

\* split_details of 100 each for one or two users
PlainDetails ==
    UNION {[K -> {<<100, 1>>}] :
              K \in {K \in SUBSET UserIds : Cardinality(K) \in {1, 2}}}

\* Every split policy among the stored users, on top of earlier equal
\* splits with one participant, before any settlement
AddSaved ==
    /\ ~Stopped
    /\ settles = 0
    /\ Len(expenses) < MaxExpenses
    /\ Cardinality(NotSimple) < MaxSplitExpenses
    /\ \E amount \in Amounts, paid_by \in DOMAIN users,
          split_among \in SplitAmongs \cap Seq(DOMAIN users),
          group_id \in GroupIds, split_type \in SplitTypes :
          \E split_details \in
                 IF split_type = "equal" THEN {EmptyDict} ELSE PlainDetails :
             AddExpense(amount, paid_by, split_among, group_id, split_type,
                        split_details)

\* settle_balance between stored users, of up to MaxSplitExpenses expenses
SettleSaved ==
    /\ ~Stopped
    /\ settles < MaxSettles
    /\ Len(expenses) <= MaxSplitExpenses
    /\ \E payer_id \in DOMAIN users, receiver_id \in DOMAIN users,
          amount \in SettleAmounts :
          SettleBalance(payer_id, receiver_id, amount)

\* The calls that save, and construction from what they saved
NextPersist == NewUser \/ NewGroup \/ AddSaved \/ SettleSaved \/ Restart

SpecPersist == Init /\ [][NextPersist]_vars

-----------------------------------------------------------------------------
(* Properties *)

\* A's balance entry for B in the users mapping us, an absent entry being 0
Entry(us, a, b) == Get0(us[a].balances, b)

RECURSIVE SumTotals(_)
SumTotals(n) ==
    IF n = 0 THEN Zero ELSE RAdd(GetTotalBalance(n), SumTotals(n - 1))

\* the sum of get_total_balance over all users
TotalOfAll == SumTotals(Len(users))

\* C1: Symmetry. In every reachable state, for all users A and B, A's
\* balance entry for B is the negation of B's balance entry for A, an absent
\* entry counting as 0.
C1_Symmetry ==
    \A a \in DOMAIN users, b \in DOMAIN users :
        Entry(users, a, b) = RNeg(Entry(users, b, a))

\* A settlement has moved an entry that is still not zero.
C1_Witness ==
    /\ call.op = "settle_balance" /\ call.result = "True"
    /\ \E a \in DOMAIN users, b \in DOMAIN users :
          /\ Entry(users, a, b) # Zero
          /\ Entry(users, a, b) # Entry(prev.users, a, b)

\* C2: Conservation. At every point of every sequence of add_expense and
\* settle_balance calls, of any split policy, payer and participant list,
\* the sum of get_total_balance over all users is 0.
C2_Conservation == TotalOfAll = Zero

\* Three users hold a total that is not zero, after an exact split and a
\* settlement.
C2_Witness ==
    /\ call.op = "settle_balance" /\ call.result = "True"
    /\ Len(expenses) = 1 /\ expenses[1].split_type = "exact"
    /\ Cardinality({u \in DOMAIN users : GetTotalBalance(u) # Zero}) = 3

\* The last call was add_expense / settle_balance
IsAdd == call.op = "add_expense"
IsSettle == call.op = "settle_balance"

\* The last call changed nothing of the users, expenses and groups
NothingChanged == Snapshot = prev

\* The sum the details of a percentage or exact split are to reach
SplitTarget == IF call.split_type = "percentage" THEN Hundred ELSE call.amount

\* How far the details of the last call are from that sum
SplitDiff == RSub(RSum(call.split_details), SplitTarget)

\* C3 as claimed: add_expense with policy percentage or exact and details
\* that are empty or do not sum to 100, respectively to the amount, returns
\* the failure result and changes no expense, group or balance.
C3_AsClaimed ==
    (/\ IsAdd
     /\ call.split_type \in {"percentage", "exact"}
     /\ (DOMAIN call.split_details = {} \/ SplitDiff # Zero))
    => (call.result = "None" /\ NothingChanged)

\* C3, amended: add_expense with policy percentage or exact and details that
\* are empty or miss 100, respectively the amount, by more than 0.01 returns
\* the failure result and changes no expense, group or balance.
C3_InvalidSplit ==
    (/\ IsAdd
     /\ call.split_type \in {"percentage", "exact"}
     /\ (DOMAIN call.split_details = {} \/ RLess(Tolerance, RAbs(SplitDiff))))
    => (call.result = "None" /\ NothingChanged)

\* A split that misses its target is rejected although every user is known,
\* the group named exists, and an expense and balances are there to keep.
C3_Witness ==
    /\ IsAdd /\ call.result = "None"
    /\ call.split_type \in {"percentage", "exact"}
    /\ DOMAIN call.split_details # {}
    /\ RLess(Tolerance, RAbs(SplitDiff))
    /\ call.paid_by \in DOMAIN prev.users
    /\ \A i \in 1..Len(call.split_among) :
          call.split_among[i] \in DOMAIN prev.users
    /\ Len(call.split_among) = MaxParticipants
    /\ call.group_id \in DOMAIN prev.groups
    /\ Len(prev.expenses) > 0
    /\ \E u \in DOMAIN prev.users : DOMAIN prev.users[u].balances # {}

\* A payer, participant or settlement party of the last call that was no
\* stored user when the call was made
UnknownUser ==
    \/ /\ IsAdd
       /\ \/ call.paid_by \notin DOMAIN prev.users
          \/ \E i \in 1..Len(call.split_among) :
                call.split_among[i] \notin DOMAIN prev.users
    \/ /\ IsSettle
       /\ \/ call.payer_id \notin DOMAIN prev.users
          \/ call.receiver_id \notin DOMAIN prev.users

\* C4: UnknownUser is all-or-nothing. add_expense whose payer or any
\* participant is no stored user, and settle_balance whose payer or receiver
\* is no stored user, report failure (None, False) and leave the balance
\* mappings, the expenses and the groups unchanged, wherever in the
\* participant list the unknown user is.
C4_UnknownUser ==
    UnknownUser => (call.result \in {"None", "False"} /\ NothingChanged)

\* add_expense is rejected for an unknown user in the last place of the
\* participant list, behind a known participant who is not the payer, while
\* balances and a group exist.
C4_Witness ==
    /\ IsAdd /\ call.result = "None"
    /\ call.paid_by \in DOMAIN prev.users
    /\ Len(call.split_among) = MaxParticipants
    /\ \A i \in 1..(MaxParticipants - 1) :
          /\ call.split_among[i] \in DOMAIN prev.users
          /\ call.split_among[i] # call.paid_by
    /\ call.split_among[MaxParticipants] \notin DOMAIN prev.users
    /\ call.group_id \in DOMAIN prev.groups
    /\ \E u \in DOMAIN prev.users : DOMAIN prev.users[u].balances # {}

\* get_total_balance of u before the last call
PrevTotal(u) == RSum(prev.users[u].balances)

\* C5 as claimed: for any two existing users P and R and any amount, in any
\* reachable state, settle_balance(P, R, amount) increases P's balance entry
\* for R by amount and decreases R's entry for P by amount, an absent entry
\* counting as 0 before the call.
C5_AsClaimed ==
    (/\ IsSettle
     /\ call.payer_id \in DOMAIN prev.users
     /\ call.receiver_id \in DOMAIN prev.users
     /\ call.payer_id # call.receiver_id)
    => /\ Entry(users, call.payer_id, call.receiver_id)
            = RAdd(Entry(prev.users, call.payer_id, call.receiver_id),
                   call.amount)
       /\ Entry(users, call.receiver_id, call.payer_id)
            = RSub(Entry(prev.users, call.receiver_id, call.payer_id),
                   call.amount)

\* C6: Settlement zeroes a balance. Whenever B's balance entry for A is -d
\* and A's entry for B is d, d > 0, settle_balance(B, A, d) leaves neither A
\* nor B with an entry for the other, and the totals of A and B move by the
\* d the entries held.
C6_SettleZeroes ==
    (/\ IsSettle
     /\ call.payer_id \in DOMAIN prev.users
     /\ call.receiver_id \in DOMAIN prev.users
     /\ RLess(Zero, call.amount)
     /\ Entry(prev.users, call.payer_id, call.receiver_id) = RNeg(call.amount)
     /\ Entry(prev.users, call.receiver_id, call.payer_id) = call.amount)
    => /\ call.result = "True"
       /\ call.receiver_id \notin DOMAIN users[call.payer_id].balances
       /\ call.payer_id \notin DOMAIN users[call.receiver_id].balances
       /\ GetTotalBalance(call.payer_id)
            = RAdd(PrevTotal(call.payer_id), call.amount)
       /\ GetTotalBalance(call.receiver_id)
            = RSub(PrevTotal(call.receiver_id), call.amount)

\* B owed A exactly the amount settled, A is owed by a third user as well,
\* and the settlement was made.
C6_Witness ==
    /\ IsSettle /\ call.result = "True"
    /\ call.payer_id \in DOMAIN prev.users
    /\ call.receiver_id \in DOMAIN prev.users
    /\ RLess(Zero, call.amount)
    /\ call.receiver_id \in DOMAIN prev.users[call.payer_id].balances
    /\ prev.users[call.payer_id].balances[call.receiver_id]
          = RNeg(call.amount)
    /\ Entry(prev.users, call.receiver_id, call.payer_id) = call.amount
    /\ DOMAIN users[call.receiver_id].balances # {}

\* The amounts u paid, and u's shares, over the stored expenses 1..n
RECURSIVE Paid(_, _)
Paid(u, n) ==
    IF n = 0 THEN Zero
    ELSE RAdd(IF expenses[n].paid_by = u THEN expenses[n].amount ELSE Zero,
              Paid(u, n - 1))

RECURSIVE Shares(_, _)
Shares(u, n) ==
    IF n = 0 THEN Zero
    ELSE RAdd(IF u \in Range(expenses[n].split_among)
              THEN RDivInt(expenses[n].amount, Len(expenses[n].split_among))
              ELSE Zero,
              Shares(u, n - 1))

Distinct(s) == \A i, j \in 1..Len(s) : s[i] = s[j] => i = j

\* Every stored expense is an equal split whose payer is one of its
\* distinct participants, and nothing was settled
EqualSplitsOnly ==
    /\ settles = 0
    /\ \A n \in DOMAIN expenses :
          /\ expenses[n].split_type = "equal"
          /\ expenses[n].paid_by \in Range(expenses[n].split_among)
          /\ Distinct(expenses[n].split_among)

\* C7: Equal-split accounting accumulates. After any sequence of successful
\* equal-split add_expense calls whose payer is one of the distinct
\* participants, every user's get_total_balance is the sum of the amounts the
\* user paid minus the sum of the user's shares (amount / participant count)
\* over the expenses the user participates in, and no user has a balance
\* entry for itself.
C7_EqualSplit ==
    EqualSplitsOnly =>
        \A u \in DOMAIN users :
            /\ GetTotalBalance(u)
                 = RSub(Paid(u, Len(expenses)), Shares(u, Len(expenses)))
            /\ u \notin DOMAIN users[u].balances

\* MaxExpenses such expenses are stored, the last two paid by different
\* users, and some user holds a total that is not zero.
C7_Witness ==
    /\ EqualSplitsOnly
    /\ IsAdd /\ call.result = "Expense"
    /\ Len(expenses) = MaxExpenses
    /\ expenses[Len(expenses)].paid_by # expenses[Len(expenses) - 1].paid_by
    /\ Len(expenses[Len(expenses)].split_among) = MaxParticipants
    /\ \E u \in DOMAIN users :
          /\ u \in Range(expenses[Len(expenses)].split_among)
          /\ u \in Range(expenses[Len(expenses) - 1].split_among)
          /\ GetTotalBalance(u) # Zero

\* C8 as claimed: Pruning invariant. In every reachable state no user's
\* balance mapping has an entry whose magnitude is below 0.01, in particular
\* none equal to 0.
C8_AsClaimed ==
    \A u \in DOMAIN users :
        \A k \in DOMAIN users[u].balances :
            ~RLess(RAbs(users[u].balances[k]), Tolerance)

\* The participants of the last add_expense other than its payer
Charged == Range(call.split_among) \ {call.paid_by}

\* Every user the last add_expense names was stored when it was made
AllKnown ==
    /\ call.paid_by \in DOMAIN prev.users
    /\ Range(call.split_among) \subseteq DOMAIN prev.users

\* p's entry for the payer of the last add_expense went down by x and the
\* payer's entry for p went up by x, an absent entry counting as 0
MovedBy(p, x) ==
    /\ Entry(users, p, call.paid_by)
         = RSub(Entry(prev.users, p, call.paid_by), x)
    /\ Entry(users, call.paid_by, p)
         = RAdd(Entry(prev.users, call.paid_by, p), x)

\* C9 as claimed: Exact split with a gap. When add_expense is called with
\* policy exact, details summing to the amount and a participant other than
\* the payer that has no entry in the details, the expense is created, that
\* participant's balance with the payer is unchanged, and every participant
\* present in the details has their entry with the payer moved by exactly
\* details[p].  Stated for participant lists without repetition.
C9_AsClaimed ==
    (/\ IsAdd /\ call.split_type = "exact"
     /\ AllKnown
     /\ Distinct(call.split_among)
     /\ DOMAIN call.split_details # {}
     /\ SplitDiff = Zero
     /\ \E p \in Charged : p \notin DOMAIN call.split_details)
    => /\ Len(expenses) = Len(prev.expenses) + 1
       /\ \A p \in Charged :
             IF p \in DOMAIN call.split_details
             THEN MovedBy(p, call.split_details[p])
             ELSE MovedBy(p, Zero)

\* How often p is in the participant list of the last add_expense
Occurrences(p) ==
    Cardinality({i \in 1..Len(call.split_among) : call.split_among[i] = p})

\* (details[p] / 100) * amount, 0 for a p with no entry in the details
PercentageOf(p) ==
    RMul(RMul(Get0(call.split_details, p), <<1, 100>>), call.amount)

\* Entries between users other than the payer, and the whole mapping of a
\* user that is neither payer nor participant, are as before the last call
OthersUnchanged ==
    /\ \A u \in DOMAIN users, v \in DOMAIN users :
          (u # call.paid_by /\ v # call.paid_by)
              => Entry(users, u, v) = Entry(prev.users, u, v)
    /\ \A u \in DOMAIN users \ (Range(call.split_among) \cup {call.paid_by}) :
          users[u] = prev.users[u]

\* C10 as claimed: Percentage split amounts. For a successful add_expense
\* with policy percentage, each participant p other than the payer has its
\* entry for the payer decreased by (details[p] / 100) * amount and the
\* payer's entry for p increased by the same, a participant with no entry in
\* the details being charged 0; balances of users outside the participant
\* list are unchanged even if they appear in the details.
C10_AsClaimed ==
    (IsAdd /\ call.result = "Expense" /\ call.split_type = "percentage")
    => /\ \A p \in Charged : MovedBy(p, PercentageOf(p))
       /\ OthersUnchanged

\* C10, amended: the same, the charge being made once for every time p is
\* in the participant list.
C10_Percentage ==
    (IsAdd /\ call.result = "Expense" /\ call.split_type = "percentage")
    => /\ \A p \in Charged :
             MovedBy(p, RMul(<<Occurrences(p), 1>>, PercentageOf(p)))
       /\ OthersUnchanged

\* A percentage split charges a participant who owed the payer already,
\* leaves out of the details another participant, and names in the details
\* no one else.
C10_Witness ==
    /\ IsAdd /\ call.result = "Expense" /\ call.split_type = "percentage"
    /\ \E p \in Charged, q \in Charged :
          /\ p \in DOMAIN call.split_details
          /\ Entry(prev.users, p, call.paid_by) # Zero
          /\ Entry(users, p, call.paid_by) # Entry(prev.users, p, call.paid_by)
          /\ q \notin DOMAIN call.split_details

\* A percentage split whose details name a user outside the participant
\* list, who holds a balance.
C10_WitnessOutside ==
    /\ IsAdd /\ call.result = "Expense" /\ call.split_type = "percentage"
    /\ \E r \in DOMAIN call.split_details :
          /\ r \notin Range(call.split_among) \cup {call.paid_by}
          /\ r \in DOMAIN users
          /\ DOMAIN users[r].balances # {}

\* C14: No self-balance. In every state reachable by add_expense and
\* settle_balance, expenses whose participant list holds the payer and
\* settlements with payer equal to receiver included, no user's balance
\* mapping has an entry keyed by the user's own identifier.
C14_NoSelfBalance ==
    \A u \in DOMAIN users : u \notin DOMAIN users[u].balances

\* A user who holds balances from an expense it paid and took part in has
\* settled with itself.
C14_Witness ==
    /\ IsSettle /\ call.result = "True"
    /\ call.payer_id = call.receiver_id
    /\ DOMAIN users[call.payer_id].balances # {}
    /\ \E n \in DOMAIN expenses :
          /\ expenses[n].paid_by = call.payer_id
          /\ expenses[n].paid_by \in Range(expenses[n].split_among)

\* C17 as claimed: add_expense is all-or-nothing on every path. A call that
\* does not return an Expense, an equal split over an empty participant list
\* and an exact split whose details omit a participant included, leaves the
\* expenses, every group's expense list and every balance mapping unchanged.
C17_AsClaimed ==
    (IsAdd /\ call.result # "Expense") => NothingChanged

\* The expense the last add_expense was to store
CallExpense ==
    Expense(call.amount, call.paid_by, call.split_among, call.split_type,
            call.split_details)

\* amount / participant count of the last add_expense
EqualShare == RDivInt(call.amount, Len(call.split_among))

\* C11: Group attach robustness. add_expense with valid users (an equal
\* split among one participant or more) succeeds, stores the Expense and
\* moves the balances as usual whatever the group id; with a group id that
\* does not exist every group is as before and the new expense id is in no
\* group's expense list; with an existing group id the new expense id is
\* appended to that group's list and every other group is as before.
C11_GroupAttach ==
    (/\ IsAdd /\ AllKnown
     /\ call.split_type = "equal" /\ Len(call.split_among) > 0)
    => /\ call.result = "Expense"
       /\ expenses = Append(prev.expenses, CallExpense)
       /\ \A p \in Charged :
             MovedBy(p, RMul(<<Occurrences(p), 1>>, EqualShare))
       /\ OthersUnchanged
       /\ DOMAIN groups = DOMAIN prev.groups
       /\ \A g \in DOMAIN groups :
             /\ groups[g].created_by = prev.groups[g].created_by
             /\ groups[g].members = prev.groups[g].members
             /\ groups[g].expenses =
                   IF g = call.group_id
                   THEN Append(prev.groups[g].expenses, Len(expenses))
                   ELSE prev.groups[g].expenses
       /\ call.group_id \notin DOMAIN prev.groups =>
             \A g \in DOMAIN groups :
                 Len(expenses) \notin Range(groups[g].expenses)

\* The second expense was attached to the second of two groups, the first
\* expense being in the first group's list, and it moved a balance.
C11_Witness ==
    /\ IsAdd /\ call.result = "Expense"
    /\ Len(groups) = MaxSharedGroups
    /\ call.group_id = MaxSharedGroups
    /\ Len(expenses) = MaxExpenses
    /\ groups[1].expenses = <<1>>
    /\ groups[call.group_id].expenses = <<Len(expenses)>>
    /\ Charged # {}

\* An expense was stored for a group id that is no group's, while a group
\* with an expense exists, and it moved a balance.
C11_WitnessMissing ==
    /\ IsAdd /\ call.result = "Expense"
    /\ call.group_id # 0
    /\ call.group_id \notin DOMAIN groups
    /\ Len(expenses) = MaxExpenses
    /\ \E g \in DOMAIN groups : groups[g].expenses = <<1>>
    /\ Charged # {}

\* C15 as claimed: Positive amounts. Every Expense in the expense collection
\* after any sequence of add_expense calls has an amount above 0.
C15_AsClaimed ==
    \A n \in DOMAIN expenses : RLess(Zero, expenses[n].amount)

\* The group the last add_member or remove_member was called on, as it was
\* before the call
GroupBefore == prev.groups[call.group_id]

\* C12: Group creator invariant. After any sequence of add_member and
\* remove_member calls the creator of a group is a member and the first of
\* the member list; remove_member(creator) returns False and leaves the
\* member list unchanged; remove_member of any other current member returns
\* True and removes it, the other members staying in their order.
C12_Creator ==
    /\ \A g \in DOMAIN groups :
          /\ groups[g].members # <<>>
          /\ groups[g].members[1] = groups[g].created_by
    /\ call.op = "remove_member" =>
          IF call.user_id = GroupBefore.created_by
          THEN call.result = "False" /\ groups = prev.groups
          ELSE call.user_id \in Range(GroupBefore.members) =>
                  /\ call.result = "True"
                  /\ groups[call.group_id].members =
                        SelectSeq(GroupBefore.members,
                                  LAMBDA m : m # call.user_id)
                  /\ \A g \in DOMAIN groups \ {call.group_id} :
                        groups[g] = prev.groups[g]

\* A member that is not the creator was removed from between the creator
\* and a later member.
C12_Witness ==
    /\ call.op = "remove_member" /\ call.result = "True"
    /\ Len(GroupBefore.members) = MaxUsers
    /\ GroupBefore.members[2] = call.user_id
    /\ Len(groups[call.group_id].members) = MaxUsers - 1

\* remove_member was refused for the creator of a group that has other
\* members.
C12_WitnessCreator ==
    /\ call.op = "remove_member" /\ call.result = "False"
    /\ call.user_id = GroupBefore.created_by
    /\ Len(GroupBefore.members) > 1

\* An expense stored by an add_expense call that raised: an equal split
\* among nobody, or an exact split without an amount for a participant who
\* is not the payer
StoredByRaise(e) ==
    \/ SplitRaises(e.split_among, e.split_type)
    \/ /\ e.split_type = "exact"
       /\ \E p \in Range(e.split_among) \ {e.paid_by} :
             p \notin DOMAIN e.split_details

\* Every add_expense call that stored an expense returned normally
AllReturned == \A n \in DOMAIN expenses : ~StoredByRaise(expenses[n])

\* What a fresh ExpenseSplitter loads from the file
Loaded == LoadData(file)

\* C13: Persistence round trip. After any sequence of create_user,
\* create_group, add_expense and settle_balance calls that return normally,
\* a fresh ExpenseSplitter loads from the saved file users with their balance
\* mappings, expenses, and groups with their member and expense lists, equal
\* to those of the instance that saved them.  The file is as it was saved:
\* not so where construction was from a malformed one.
C13_RoundTrip ==
    (AllReturned /\ call.result # "LoadError") =>
        /\ ~Loaded.raised
        /\ Loaded.users = users
        /\ Loaded.expenses = expenses
        /\ Loaded.groups = groups

\* A fresh ExpenseSplitter was constructed on a file that holds two expenses
\* of one group, one of them with split details, and balances between users.
C13_Witness ==
    /\ call.op = "load_data" /\ call.result = "Loaded"
    /\ AllReturned
    /\ Len(expenses) = MaxExpenses
    /\ \E g \in DOMAIN groups : groups[g].expenses = <<1, 2>>
    /\ \E n \in DOMAIN expenses : DOMAIN expenses[n].split_details # {}
    /\ \E u \in DOMAIN users : Cardinality(DOMAIN users[u].balances) > 1
    /\ Snapshot = prev

\* C16 as claimed: Load failure starts empty. When the persisted document is
\* malformed in one of its sections, constructing an ExpenseSplitter does not
\* fail and leaves users, expenses and groups all empty.
C16_AsClaimed ==
    (call.op = "load_data" /\ call.result = "LoadError")
    => (users = <<>> /\ expenses = <<>> /\ groups = <<>>)

====
